---- MODULE Spec2Model ----
(***************************************************************************)
(* ChatService.js (realtime-chat-react): the promise-returning operations  *)
(* over the space-cloud collections "chats", "messages" and "users".       *)
(*                                                                         *)
(* One operation is followed at a time: an operation is called (the        *)
(* executor of its promise runs and issues its backend request), and the   *)
(* backend then either fulfils the request with a status or rejects it;    *)
(* the operation's then/catch callback runs in that same step.             *)
(***************************************************************************)
EXTENDS Naturals, Sequences, FiniteSets, TLC

VARIABLES
    user,       \* store.getState().user.user._id, the current user
    chats,      \* documents this client has stored in collection "chats"
    messages,   \* documents this client has stored in collection "messages"
    nextId,     \* config.generateId(): how many ids have been generated, plus one
    call,       \* the operation followed: its arguments, request, response, promise
    sub         \* the live query last returned by a start...Realtime operation

vars == <<user, chats, messages, nextId, call, sub>>

(* ------------------------------ bounds -------------------------------- *)

\* ids that config.generateId() hands out before the model stops calling it
MaxId == 2
\* rows the backend holds in a collection that is queried
MaxRows == 2

(* ------------------------------ inputs -------------------------------- *)

StatusOK == 200
Statuses == {StatusOK, 403}
Errors == {"NetworkError", "Timeout"}
Users == {"u1", "u2", "u3"}
ALL == "ALL"
Times == {"t1", "t2"}
Texts == {"hello"}

generateId(n) == "id" \o ToString(n)
Ids == {generateId(n) : n \in 1..MaxId}

(* ------------------------------ promises ------------------------------ *)

\* new Promise(...): pending until the first resolve or reject
Pending == [state |-> "pending"]

\* resolve(v): settles a pending promise; a settled promise is left as it is
Resolve(p, v) ==
    IF p.state = "pending" THEN [state |-> "resolved", value |-> v] ELSE p

\* reject(e): settles a pending promise; a settled promise is left as it is
Reject(p, e) ==
    IF p.state = "pending" THEN [state |-> "rejected", value |-> e] ELSE p

Fulfilled(status) == [kind |-> "fulfilled", status |-> status]
Rejected(e) == [kind |-> "rejected", error |-> e]

\* whether a new operation may be followed: none is waiting for the backend
Free == call.phase # "awaiting"

\* the record of an operation just called: one request issued, promise pending
NewCall(op, arg, local, request) ==
    [op |-> op, arg |-> arg, local |-> local, requests |-> <<request>>,
     phase |-> "awaiting", promise |-> Pending, unhandled |-> {}]

\* the record of an operation whose callback has run
Done(response, promise, unhandled) ==
    [op |-> call.op, arg |-> call.arg, local |-> call.local,
     requests |-> call.requests, phase |-> "done", response |-> response,
     promise |-> promise, unhandled |-> unhandled]

(* --------------------------- the backend ------------------------------ *)

\* insert(col).one(doc): the document is stored when the status is 200
InsertOne(col, doc, status) ==
    IF status = StatusOK THEN col \cup {doc} ELSE col

\* $set: the fields of the patch replace those of the stored document
SetFields(doc, patch) ==
    [f \in DOMAIN doc |-> IF f \in DOMAIN patch THEN patch[f] ELSE doc[f]]

\* updateOne(col).where(_id == id).set(patch): applied when the status is 200
UpdateOne(col, id, patch, status) ==
    IF status = StatusOK
    THEN {IF d._id = id THEN SetFields(d, patch) ELSE d : d \in col}
    ELSE col

(* ----------------------------- createChat ----------------------------- *)

\* variant of createChatRecord with the two parties exchanged
createChatRecordSwapped(id, partnerID, t) ==
    [_id |-> id, to |-> user, from |-> partnerID, creation |-> t]

createChatRecord(id, partnerID, t) ==
    [_id |-> id, to |-> partnerID, from |-> user, creation |-> t]

createChat(partnerID) ==
    /\ Free
    /\ nextId <= MaxId
    /\ \E t \in Times :
         LET chat == createChatRecord(generateId(nextId), partnerID, t)
         IN  call' = NewCall("createChat", partnerID, chat,
                             [kind |-> "insert", col |-> "chats", doc |-> chat])
    /\ nextId' = nextId + 1
    /\ UNCHANGED <<user, chats, messages, sub>>

\* variant of createChatOnFulfilled that looks at the status as sendMessage does
createChatOnFulfilledChecked(p, chat, res) ==
    IF res.status # StatusOK
    THEN Reject(p, "User not allowed to sign in")
    ELSE Resolve(p, chat)

\* .then(res => { resolve(chat) })
createChatOnFulfilled(p, chat, res) == Resolve(p, chat)

createChatThen(status) ==
    /\ call.phase = "awaiting"
    /\ call.op = "createChat"
    /\ chats' = InsertOne(chats, call.requests[1].doc, status)
    /\ call' = Done(Fulfilled(status),
                    createChatOnFulfilled(call.promise, call.local, Fulfilled(status)),
                    call.unhandled)
    /\ UNCHANGED <<user, messages, nextId, sub>>

\* .catch((error) => { reject(error) })
createChatCatch(error) ==
    /\ call.phase = "awaiting"
    /\ call.op = "createChat"
    /\ call' = Done(Rejected(error), Reject(call.promise, error), call.unhandled)
    /\ UNCHANGED <<user, chats, messages, nextId, sub>>

(* ----------------------------- sendMessage ---------------------------- *)

\* variant of sendMessageRecord that creates the message already read
sendMessageRecordRead(id, chatID, text, t) ==
    [_id |-> id, text |-> text, read |-> TRUE, chat_id |-> chatID,
     from |-> user, time |-> t]

\* variant of sendMessageRecord with the two arguments exchanged
sendMessageRecordSwapped(id, chatID, text, t) ==
    [_id |-> id, text |-> chatID, read |-> FALSE, chat_id |-> text,
     from |-> user, time |-> t]

sendMessageRecord(id, chatID, text, t) ==
    [_id |-> id, text |-> text, read |-> FALSE, chat_id |-> chatID,
     from |-> user, time |-> t]

sendMessage(chatID, text) ==
    /\ Free
    /\ nextId <= MaxId
    /\ \E t \in Times :
         LET message == sendMessageRecord(generateId(nextId), chatID, text, t)
         IN  call' = NewCall("sendMessage", [chatID |-> chatID, text |-> text],
                             message,
                             [kind |-> "insert", col |-> "messages", doc |-> message])
    /\ nextId' = nextId + 1
    /\ UNCHANGED <<user, chats, messages, sub>>

\* variant of sendMessageOnFulfilled without the status test
sendMessageOnFulfilledUnchecked(p, res) == Resolve(p, res)

\* .then(res => { if (res.status !== 200) { reject("User not allowed to sign in") }
\*                resolve(res) })
sendMessageOnFulfilled(p, res) ==
    LET p1 == IF res.status # StatusOK
              THEN Reject(p, "User not allowed to sign in")
              ELSE p
    IN  Resolve(p1, res)

sendMessageThen(status) ==
    /\ call.phase = "awaiting"
    /\ call.op = "sendMessage"
    /\ messages' = InsertOne(messages, call.requests[1].doc, status)
    /\ call' = Done(Fulfilled(status),
                    sendMessageOnFulfilled(call.promise, Fulfilled(status)),
                    call.unhandled)
    /\ UNCHANGED <<user, chats, nextId, sub>>

\* .catch((error) => { reject(error) })
sendMessageCatch(error) ==
    /\ call.phase = "awaiting"
    /\ call.op = "sendMessage"
    /\ call' = Done(Rejected(error), Reject(call.promise, error), call.unhandled)
    /\ UNCHANGED <<user, chats, messages, nextId, sub>>

(* ---------------------------- updateMessage --------------------------- *)

\* the objects handed to updateMessage: a message id and the read flag to set
MessageArgs == [_id : Ids, read : BOOLEAN]

updateMessage(message) ==
    /\ Free
    /\ call' = NewCall("updateMessage", message, message,
                       [kind |-> "update", col |-> "messages",
                        where |-> [field |-> "_id", op |-> "==", value |-> message._id],
                        set |-> message])
    /\ UNCHANGED <<user, chats, messages, nextId, sub>>

\* .then(res => (resolve(res)))
updateMessageThen(status) ==
    /\ call.phase = "awaiting"
    /\ call.op = "updateMessage"
    /\ messages' = UpdateOne(messages, call.requests[1].where.value,
                             call.requests[1].set, status)
    /\ call' = Done(Fulfilled(status), Resolve(call.promise, Fulfilled(status)),
                    call.unhandled)
    /\ UNCHANGED <<user, chats, nextId, sub>>

\* .catch(err => { throw err }): the throw rejects the promise that catch()
\* returns, which nobody holds; resolve and reject of the promise returned by
\* updateMessage are not called
updateMessageCatch(err) ==
    /\ call.phase = "awaiting"
    /\ call.op = "updateMessage"
    /\ call' = Done(Rejected(err), call.promise, call.unhandled \cup {err})
    /\ UNCHANGED <<user, chats, messages, nextId, sub>>

(* ------------------------- filter predicates -------------------------- *)

\* cond(f1, eval, f2) of space-api
cond(f1, eval, f2) == [type |-> "cond", f1 |-> f1, eval |-> eval, f2 |-> f2]

\* or(...conds) of space-api
or(clauses) == [type |-> "or", clauses |-> clauses]

\* whether the backend selects a row under a where-condition: a comparison reads
\* the row's field (a row without the field equals nothing), an or holds when
\* one of its clauses does
RECURSIVE Matches(_, _)
Matches(c, row) ==
    IF c.type = "or"
    THEN \E i \in 1..Len(c.clauses) : Matches(c.clauses[i], row)
    ELSE IF c.eval = "=="
         THEN c.f1 \in DOMAIN row /\ row[c.f1] = c.f2
         ELSE ~(c.f1 \in DOMAIN row /\ row[c.f1] = c.f2)

\* get(col).where(condition).apply(): the rows selected, in the backend's order
Select(rows, condition) ==
    LET Test(row) == Matches(condition, row) IN SelectSeq(rows, Test)

BoundedSeq(S, n) == UNION {[1..k -> S] : k \in 0..n}

\* what a query is answered with: with status 200 the selected rows of some
\* content of the collection, with another status no rows
Answers(universe, condition, status) ==
    IF status = StatusOK
    THEN {Select(rows, condition) : rows \in BoundedSeq(universe, MaxRows)}
    ELSE {<< >>}

QueryResponse(status, result) ==
    [kind |-> "fulfilled", status |-> status, data |-> [result |-> result]]

\* rows the collections may hold, written by any client
ChatRows == [_id : {"c1"}, to : Users \cup {ALL}, from : Users, creation : {"t1"}]
UserRows == [_id : Users \cup {ALL}, name : {"A", "B"}]
MessageRows ==
    [_id : {"m1", "m2"}, text : Texts, read : {FALSE}, chat_id : {"c1", "c2", ALL},
     from : {"u1", "u2"}, time : {"t1"}]

\* object[key] = value
Put(object, key, value) ==
    [k \in DOMAIN object \cup {key} |-> IF k = key THEN value ELSE object[k]]

(* ---------------------- convertRawUsersToHasedObject ------------------ *)

\* rawUsers.forEach((elt) => { users[elt._id] = elt }), from element i on
RECURSIVE usersForEach(_, _, _)
usersForEach(users, rawUsers, i) ==
    IF i > Len(rawUsers) THEN users
    ELSE usersForEach(Put(users, rawUsers[i]._id, rawUsers[i]), rawUsers, i + 1)

\* variant of convertRawUsersToHasedObject that enters "ALL" before the users
convertRawUsersSentinelFirst(rawUsers) ==
    usersForEach(Put(<< >>, "ALL", [_id |-> "ALL", name |-> "ALL"]), rawUsers, 1)

convertRawUsersToHasedObject(rawUsers) ==
    Put(usersForEach(<< >>, rawUsers, 1), "ALL", [_id |-> "ALL", name |-> "ALL"])

(* ----------------------------- getMessages ---------------------------- *)

getMessagesCondition == or(<<cond("to", "==", user), cond("from", "==", user)>>)

getMessages ==
    /\ Free
    /\ call' = NewCall("getMessages", "none", "none",
                       [kind |-> "get", col |-> "messages",
                        where |-> getMessagesCondition])
    /\ UNCHANGED <<user, chats, messages, nextId, sub>>

\* res.data.result.forEach((elt) => { const key = elt.chat_id
\*     if (!messages[key]) { messages[key] = [] }
\*     messages[key].push(elt) }), from element i on
RECURSIVE messagesForEach(_, _, _)
messagesForEach(table, result, i) ==
    IF i > Len(result) THEN table
    ELSE LET key == result[i].chat_id
             t1 == IF key \in DOMAIN table THEN table ELSE Put(table, key, << >>)
         IN  messagesForEach(Put(t1, key, Append(t1[key], result[i])), result, i + 1)

\* variant of groupMessages that enters "ALL" only when the key is missing
groupMessagesKeepAll(result) ==
    LET table == messagesForEach(<< >>, result, 1)
    IN  IF "ALL" \in DOMAIN table THEN table ELSE Put(table, "ALL", << >>)

\* the table getMessages builds of a result list
groupMessages(result) == Put(messagesForEach(<< >>, result, 1), "ALL", << >>)

\* .then(res => { if (res.status === 200) { ...; resolve(messages) } })
getMessagesOnFulfilled(p, res) ==
    IF res.status = StatusOK THEN Resolve(p, groupMessages(res.data.result)) ELSE p

getMessagesThen(status) ==
    /\ call.phase = "awaiting"
    /\ call.op = "getMessages"
    /\ \E result \in Answers(MessageRows, call.requests[1].where, status) :
         call' = Done(QueryResponse(status, result),
                      getMessagesOnFulfilled(call.promise, QueryResponse(status, result)),
                      call.unhandled)
    /\ UNCHANGED <<user, chats, messages, nextId, sub>>

\* .catch((err) => { reject(err) })
getMessagesCatch(err) ==
    /\ call.phase = "awaiting"
    /\ call.op = "getMessages"
    /\ call' = Done(Rejected(err), Reject(call.promise, err), call.unhandled)
    /\ UNCHANGED <<user, chats, messages, nextId, sub>>

(* ------------------------------ getUsers ------------------------------ *)

getUsersCondition == cond("_id", "!=", user)

getUsers ==
    /\ Free
    /\ call' = NewCall("getUsers", "none", "none",
                       [kind |-> "get", col |-> "users", where |-> getUsersCondition])
    /\ UNCHANGED <<user, chats, messages, nextId, sub>>

\* .then(res => { if (res.status === 200) {
\*     let users = convertRawUsersToHasedObject(res.data.result); resolve(users) } })
getUsersOnFulfilled(p, res) ==
    IF res.status = StatusOK
    THEN Resolve(p, convertRawUsersToHasedObject(res.data.result))
    ELSE p

getUsersThen(status) ==
    /\ call.phase = "awaiting"
    /\ call.op = "getUsers"
    /\ \E result \in Answers(UserRows, call.requests[1].where, status) :
         call' = Done(QueryResponse(status, result),
                      getUsersOnFulfilled(call.promise, QueryResponse(status, result)),
                      call.unhandled)
    /\ UNCHANGED <<user, chats, messages, nextId, sub>>

\* .catch((err) => { reject(err) })
getUsersCatch(err) ==
    /\ call.phase = "awaiting"
    /\ call.op = "getUsers"
    /\ call' = Done(Rejected(err), Reject(call.promise, err), call.unhandled)
    /\ UNCHANGED <<user, chats, messages, nextId, sub>>

(* ------------------------------ getChats ------------------------------ *)

\* variant of getChatsCondition without the "ALL" clause
getChatsConditionNoAll ==
    or(<<cond("from", "==", user), cond("to", "==", user)>>)

getChatsCondition ==
    or(<<cond("from", "==", user), cond("to", "==", user), cond("to", "==", "ALL")>>)

getChats ==
    /\ Free
    /\ call' = NewCall("getChats", "none", "none",
                       [kind |-> "get", col |-> "chats", where |-> getChatsCondition])
    /\ UNCHANGED <<user, chats, messages, nextId, sub>>

\* .then((res) => { if (res.status === 200) { resolve(res.data.result) } })
getChatsOnFulfilled(p, res) ==
    IF res.status = StatusOK THEN Resolve(p, res.data.result) ELSE p

getChatsThen(status) ==
    /\ call.phase = "awaiting"
    /\ call.op = "getChats"
    /\ \E result \in Answers(ChatRows, call.requests[1].where, status) :
         call' = Done(QueryResponse(status, result),
                      getChatsOnFulfilled(call.promise, QueryResponse(status, result)),
                      call.unhandled)
    /\ UNCHANGED <<user, chats, messages, nextId, sub>>

\* .catch((err) => { reject(err) })
getChatsCatch(err) ==
    /\ call.phase = "awaiting"
    /\ call.op = "getChats"
    /\ call' = Done(Rejected(err), Reject(call.promise, err), call.unhandled)
    /\ UNCHANGED <<user, chats, messages, nextId, sub>>

(* -------------------------- realtime triggers ------------------------- *)

startMessagesRealtime(chatID) ==
    /\ sub' = [col |-> "messages", filtered |-> TRUE,
               where |-> cond("chat_id", "==", chatID)]
    /\ UNCHANGED <<user, chats, messages, nextId, call>>

startUsersRealtime ==
    /\ sub' = [col |-> "users", filtered |-> FALSE]
    /\ UNCHANGED <<user, chats, messages, nextId, call>>

startChatsRealtimeCondition ==
    or(<<or(<<cond("to", "==", user), cond("from", "==", user),
              cond("to", "==", "ALL")>>)>>)

startChatsRealtime ==
    /\ sub' = [col |-> "chats", filtered |-> TRUE,
               where |-> startChatsRealtimeCondition]
    /\ UNCHANGED <<user, chats, messages, nextId, call>>

(* --------------------------- specification ---------------------------- *)

Idle == [op |-> "none", phase |-> "idle"]
NoSub == [col |-> "none", filtered |-> FALSE]

Init ==
    /\ user \in Users
    /\ chats = {}
    /\ messages = {}
    /\ nextId = 1
    /\ call = Idle
    /\ sub = NoSub

Next ==
    \/ \E partnerID \in Users \cup {ALL} : createChat(partnerID)
    \/ \E status \in Statuses : createChatThen(status)
    \/ \E error \in Errors : createChatCatch(error)
    \/ \E chatID \in Ids \cup {ALL}, text \in Texts : sendMessage(chatID, text)
    \/ \E status \in Statuses : sendMessageThen(status)
    \/ \E error \in Errors : sendMessageCatch(error)
    \/ \E message \in MessageArgs : updateMessage(message)
    \/ \E status \in Statuses : updateMessageThen(status)
    \/ \E err \in Errors : updateMessageCatch(err)

Spec == Init /\ [][Next]_vars

\* the queries and the live queries
QueryNext ==
    \/ getMessages
    \/ \E status \in Statuses : getMessagesThen(status)
    \/ \E err \in Errors : getMessagesCatch(err)
    \/ getUsers
    \/ \E status \in Statuses : getUsersThen(status)
    \/ \E err \in Errors : getUsersCatch(err)
    \/ getChats
    \/ \E status \in Statuses : getChatsThen(status)
    \/ \E err \in Errors : getChatsCatch(err)
    \/ \E chatID \in Ids \cup {ALL} : startMessagesRealtime(chatID)
    \/ startUsersRealtime
    \/ startChatsRealtime

QuerySpec == Init /\ [][QueryNext]_vars

(* ------------------------------- claims ------------------------------- *)

Called(op) == call.op = op
Handled(op) == call.op = op /\ call.phase = "done"
FulfilledWith(status) ==
    call.response.kind = "fulfilled" /\ call.response.status = status
FulfilledNot200 ==
    call.response.kind = "fulfilled" /\ call.response.status # StatusOK

\* C1: once the backend has answered a sendMessage, its promise is rejected with
\* the backend's error when the insert rejected, rejected when the insert
\* fulfilled with a status other than 200 (the resolve that follows the reject
\* changes nothing), and resolved with the backend's response when the insert
\* fulfilled with status 200; it is never left pending.
C1_SendMessageSettles ==
    Handled("sendMessage") =>
        IF call.response.kind = "rejected"
        THEN call.promise.state = "rejected"
             /\ call.promise.value = call.response.error
        ELSE IF call.response.status # StatusOK
             THEN call.promise.state = "rejected"
             ELSE call.promise.state = "resolved"
                  /\ call.promise.value = call.response

C1_Witness ==
    Handled("sendMessage") /\ FulfilledNot200 /\ call.promise.state = "rejected"

\* C2: once the backend has answered a getChats, getUsers or getMessages, the
\* promise of the operation is settled, and it is rejected when the backend
\* fulfilled the query with a status other than 200.
C2_QueriesSettle ==
    (call.op \in {"getChats", "getUsers", "getMessages"} /\ call.phase = "done") =>
        /\ call.promise.state # "pending"
        /\ FulfilledNot200 => call.promise.state = "rejected"

\* C3: once the backend has answered an updateMessage, its promise is rejected
\* with the backend's error when the update rejected, and resolved with the
\* backend's response when the update fulfilled.
C3_UpdateMessagePropagates ==
    Handled("updateMessage") =>
        IF call.response.kind = "rejected"
        THEN call.promise.state = "rejected"
             /\ call.promise.value = call.response.error
        ELSE call.promise.state = "resolved"
             /\ call.promise.value = call.response

Stored(id) == \E m \in messages : m._id = id

\* C4, as claimed: every message enters the collection with read = false, and no
\* step turns the read flag of a stored message from true to false.
C4_ReadMonotonic ==
    [][\A n \in messages' :
          IF Stored(n._id)
          THEN \A m \in messages : (m._id = n._id /\ m.read) => n.read
          ELSE n.read = FALSE]_vars

\* C4, as amended: every message enters the collection with read = false, and
\* the read flag of a stored message changes only when the backend applies an
\* updateMessage for that message, and then becomes the read flag of the object
\* that was passed to updateMessage (true or false).
C4_ReadSetOnlyByUpdate ==
    [][\A n \in messages' :
          IF Stored(n._id)
          THEN \A m \in messages :
                  (m._id = n._id /\ m.read # n.read) =>
                      /\ call.op = "updateMessage"
                      /\ call.phase = "awaiting"
                      /\ call.arg._id = n._id
                      /\ n.read = call.arg.read
          ELSE n.read = FALSE]_vars

C4_Witness ==
    /\ Handled("updateMessage")
    /\ FulfilledWith(StatusOK)
    /\ \E m \in messages : m._id = call.arg._id /\ m.read

ChatExists(id) == \E c \in chats : c._id = id

\* C6, as claimed: every stored message's chat_id is the _id of a stored chat.
C6_ReferentialIntegrity == \A m \in messages : ChatExists(m.chat_id)

\* a sendMessage waits for the backend whose chatID is the _id of no stored chat
StrayMessagePending ==
    /\ call.op = "sendMessage"
    /\ call.phase = "awaiting"
    /\ ~ChatExists(call.arg.chatID)

\* C6, as amended: referential integrity is kept by every step except the
\* storing of a message whose sendMessage call was given a chatID that is the
\* _id of no stored chat; so it holds as long as every sendMessage call is
\* given the _id of a chat already stored.
C6_IntegrityKeptWhenChatGiven ==
    [][(C6_ReferentialIntegrity /\ ~StrayMessagePending)
          => C6_ReferentialIntegrity']_vars

C6_Witness ==
    /\ Handled("sendMessage")
    /\ FulfilledWith(StatusOK)
    /\ ChatExists(call.arg.chatID)
    /\ \E m \in messages : m._id = call.local._id /\ m.chat_id = call.arg.chatID

\* C5: a createChat issues exactly one request, an insert on "chats" of the
\* record {_id: an id no stored document has, to: the partner, from: the
\* current user, creation: the time of the call}, and when the insert is
\* fulfilled the promise is resolved with that same record.
C5_CreateChatInsertsOnce ==
    Called("createChat") =>
        /\ Len(call.requests) = 1
        /\ call.requests[1].kind = "insert"
        /\ call.requests[1].col = "chats"
        /\ LET doc == call.requests[1].doc
           IN  /\ doc.from = user
               /\ doc.to = call.arg
               /\ doc.creation \in Times
               /\ \A m \in messages : m._id # doc._id
               /\ \A c \in chats : c._id = doc._id => c = doc
               /\ (call.phase = "done" /\ call.response.kind = "fulfilled") =>
                      /\ call.promise.state = "resolved"
                      /\ call.promise.value = doc

C5_Witness ==
    /\ Handled("createChat")
    /\ FulfilledWith(StatusOK)
    /\ call.promise.state = "resolved"
    /\ call.requests[1].doc \in chats

\* C10: once the backend has answered a createChat, its promise is rejected
\* exactly when the insert rejected; when the insert fulfilled, with whatever
\* status, the promise is resolved with the local chat record, and with a
\* status other than 200 that record is not in the chats collection.
C10_CreateChatIgnoresStatus ==
    Handled("createChat") =>
        /\ (call.promise.state = "rejected") <=> (call.response.kind = "rejected")
        /\ call.response.kind = "fulfilled" =>
              /\ call.promise.state = "resolved"
              /\ call.promise.value = call.local
              /\ call.response.status # StatusOK => call.local \notin chats

C10_Witness ==
    /\ Handled("createChat")
    /\ FulfilledNot200
    /\ call.promise.state = "resolved"
    /\ call.local \notin chats

IdsOf(rows) == {rows[i]._id : i \in 1..Len(rows)}

\* C7: the table getUsers resolves with, built by convertRawUsersToHasedObject
\* of the result list, has as keys exactly the ids of the list and "ALL"; every
\* key other than "ALL" maps to a record of the list carrying that id; "ALL"
\* maps to {_id: "ALL", name: "ALL"}, also when the list holds a user whose id
\* is "ALL"; the empty list gives the one key "ALL".
C7_UsersTable ==
    (Handled("getUsers") /\ FulfilledWith(StatusOK)) =>
        /\ call.promise.state = "resolved"
        /\ LET rawUsers == call.response.data.result
               users == call.promise.value
           IN  /\ DOMAIN users = IdsOf(rawUsers) \cup {"ALL"}
               /\ \A k \in DOMAIN users \ {"ALL"} :
                     /\ users[k]._id = k
                     /\ \E i \in 1..Len(rawUsers) : rawUsers[i] = users[k]
               /\ users["ALL"] = [_id |-> "ALL", name |-> "ALL"]
               /\ rawUsers = << >> => DOMAIN users = {"ALL"}

C7_Witness ==
    /\ Handled("getUsers")
    /\ call.promise.state = "resolved"
    /\ Len(call.response.data.result) = 2
    /\ call.response.data.result[2]._id = "ALL"
    /\ call.response.data.result[2].name = "A"
    /\ call.response.data.result[1]._id # "ALL"

Belongs(c) == c.from = user \/ c.to = user \/ c.to = "ALL"

\* C8: the condition getChats queries with and the condition of the live query
\* startChatsRealtime returns each select a chat exactly when its from is the
\* current user, its to is the current user, or its to is "ALL".
C8_ChatPredicates ==
    /\ Called("getChats") =>
          \A c \in ChatRows : Matches(call.requests[1].where, c) <=> Belongs(c)
    /\ sub.col = "chats" =>
          \A c \in ChatRows : Matches(sub.where, c) <=> Belongs(c)

C8_Witness ==
    /\ Called("getChats")
    /\ sub.col = "chats"
    /\ \E c \in ChatRows : Belongs(c) /\ c.to = "ALL" /\ c.from # user
    /\ \E c \in ChatRows : ~Belongs(c) /\ ~Matches(sub.where, c)

ChatIdsOf(rows) == {rows[i].chat_id : i \in 1..Len(rows)}
OfChat(rows, chatID) ==
    LET Test(row) == row.chat_id = chatID IN SelectSeq(rows, Test)

\* C9: when the query of getMessages is fulfilled with status 200, the promise
\* is resolved with a table whose keys are the chat_ids of the result list and
\* "ALL"; every key other than "ALL" maps to the messages of the list with that
\* chat_id, in the order of the list; "ALL" maps to the empty sequence; the
\* empty list gives the one key "ALL".
C9_MessagesGrouped ==
    (Handled("getMessages") /\ FulfilledWith(StatusOK)) =>
        /\ call.promise.state = "resolved"
        /\ LET result == call.response.data.result
               table == call.promise.value
           IN  /\ DOMAIN table = ChatIdsOf(result) \cup {"ALL"}
               /\ \A k \in DOMAIN table \ {"ALL"} : table[k] = OfChat(result, k)
               /\ table["ALL"] = << >>
               /\ result = << >> => DOMAIN table = {"ALL"}

C9_Witness ==
    /\ Handled("getMessages")
    /\ call.promise.state = "resolved"
    /\ Len(call.response.data.result) = 2
    /\ call.response.data.result[1].chat_id = "ALL"
    /\ call.response.data.result[2].chat_id = "c1"

====
